---------------------------- MODULE Spec2Model ----------------------------
(***************************************************************************)
(* A model of salt's postgres execution module (salt/modules/postgres.py)  *)
(* and of the two state modules built on it (salt/states/                  *)
(* postgres_database.py, salt/states/postgres_user.py).                    *)
(*                                                                         *)
(* Python strings that the code splits, strips or compares are sequences   *)
(* of one-character strings; connection parameters, which the code only    *)
(* tests for truth and copies, are TLA+ strings.                           *)
(***************************************************************************)
EXTENDS Integers, Sequences, FiniteSets, TLC

(***************************************************************************)
(* Bounds of the model                                                     *)
(***************************************************************************)
\* Longest listing output, in lines, that the parser is applied to.
MaxLines == 3

(***************************************************************************)
(* Python built-ins used by the code                                       *)
(***************************************************************************)
\* The value None where a string is expected.
PyNone == <<"<None>">>

\* str.split(sep): the segments between the occurrences of sep, one more
\* than there are occurrences.
split(s, sep) ==
    LET at == {i \in 1..Len(s) : s[i] = sep}
        Nth(k) == CHOOSE i \in at : Cardinality({j \in at : j <= i}) = k
        first(k) == IF k = 1 THEN 1 ELSE Nth(k - 1) + 1
        last(k) == IF k = Cardinality(at) + 1 THEN Len(s) ELSE Nth(k) - 1
    IN  [k \in 1..(Cardinality(at) + 1) |-> SubSeq(s, first(k), last(k))]

IsSpace(c) == c \in {" ", "\t", "\n", "\r"}

RECURSIVE lstrip(_)
lstrip(s) ==
    IF s # <<>> /\ IsSpace(Head(s)) THEN lstrip(Tail(s)) ELSE s

RECURSIVE rstrip(_)
rstrip(s) ==
    IF s # <<>> /\ IsSpace(s[Len(s)]) THEN rstrip(SubSeq(s, 1, Len(s) - 1)) ELSE s

\* str.strip()
strip(s) == rstrip(lstrip(s))

\* [x.strip() for x in line.split("|")]
StripAll(segs) == [i \in 1..Len(segs) |-> strip(segs[i])]

\* s[:-1]
ButLast(s) == IF s = <<>> THEN <<>> ELSE SubSeq(s, 1, Len(s) - 1)

\* list(zip(a, b)): pairs up to the shorter length
Min(a, b) == IF a <= b THEN a ELSE b
zip(a, b) == [i \in 1..Min(Len(a), Len(b)) |-> <<a[i], b[i]>>]

\* dict(pairs).get(key): the value of the last pair with that key, else None
RECURSIVE DictGetFrom(_, _, _)
DictGetFrom(pairs, key, i) ==
    IF i = 0 THEN PyNone
    ELSE IF pairs[i][1] = key THEN pairs[i][2]
    ELSE DictGetFrom(pairs, key, i - 1)

DictGet(pairs, key) == DictGetFrom(pairs, key, Len(pairs))

\* The outcome of a Python call: a returned value or a raised exception.
Returned(v) == [exc |-> "", val |-> v]
Raised(e) == [exc |-> e, val |-> <<>>]

(***************************************************************************)
(* salt/modules/postgres.py: connection parameters                         *)
(***************************************************************************)
\* None and truth of a connection value (a Python string or None).
None == "<None>"
Truthy(v) == v # None /\ v # ""

\* a or b
Or(a, b) == IF Truthy(a) THEN a ELSE b

\* m.get(k) of the __opts__ and __pillar__ maps
Get(m, k) == IF k \in DOMAIN m THEN m[k] ELSE None

EmptyMap == [k \in {} |-> ""]

ConnArgs(pguser, pgpassword, pghost, pgport) ==
    [pguser |-> pguser, pgpassword |-> pgpassword, pghost |-> pghost, pgport |-> pgport]

\* Variant of _connection_defaults that asks __pillar__ before __opts__.
connection_defaults_PillarFirst(a, o, p) ==
    ConnArgs(
        IF ~Truthy(a.pguser)
        THEN Or(Get(p, "postgres.pguser"), Or(Get(o, "postgres.pguser"), "postgres"))
        ELSE a.pguser,
        IF ~Truthy(a.pgpassword)
        THEN Or(Get(p, "postgres.pgpassword"), Or(Get(o, "postgres.pgpassword"), None))
        ELSE a.pgpassword,
        IF ~Truthy(a.pghost)
        THEN Or(Get(p, "postgres.pghost"), Or(Get(o, "postgres.pghost"), "127.0.0.1"))
        ELSE a.pghost,
        IF ~Truthy(a.pgport)
        THEN Or(Get(p, "postgres.pgport"), Or(Get(o, "postgres.pgport"), "5432"))
        ELSE a.pgport)

\* _connection_defaults(pguser, pgpassword, pghost, pgport), reading the
\* module's __opts__ (o) and __pillar__ (p).
connection_defaults(a, o, p) ==
    ConnArgs(
        IF ~Truthy(a.pguser)
        THEN Or(Get(o, "postgres.pguser"), Or(Get(p, "postgres.pguser"), "postgres"))
        ELSE a.pguser,
        IF ~Truthy(a.pgpassword)
        THEN Or(Get(o, "postgres.pgpassword"), Or(Get(p, "postgres.pgpassword"), None))
        ELSE a.pgpassword,
        IF ~Truthy(a.pghost)
        THEN Or(Get(o, "postgres.pghost"), Or(Get(p, "postgres.pghost"), "127.0.0.1"))
        ELSE a.pghost,
        IF ~Truthy(a.pgport)
        THEN Or(Get(o, "postgres.pgport"), Or(Get(p, "postgres.pgport"), "5432"))
        ELSE a.pgport)

\* env = {}; if pgpassword: env['PGPASSWORD'] = pgpassword
CommandEnv(pgpassword) ==
    IF Truthy(pgpassword) THEN [k \in {"PGPASSWORD"} |-> pgpassword] ELSE EmptyMap

(***************************************************************************)
(* salt/modules/postgres.py: listing parsers and existence checks          *)
(***************************************************************************)
\* Segment counts of a table row of `psql -l` and of `SELECT * FROM pg_roles`.
DbColumns == 6
RoleColumns == 13

NameField == <<"N", "a", "m", "e">>
RolnameField == <<"r", "o", "l", "n", "a", "m", "e">>

\* The loop of db_list / user_list over lines[1:].
RECURSIVE TableRecords(_, _, _, _)
TableRecords(header, lines, i, ret) ==
    IF i > Len(lines) THEN ret
    ELSE LET line == StripAll(split(lines[i], "|"))
         IN  TableRecords(header, lines, i + 1,
                 IF line[1] # <<>>
                 THEN Append(ret, zip(ButLast(header), ButLast(line)))
                 ELSE ret)

\* Variant of db_list that returns no record for a text without table lines.
db_list_EmptyWithoutTable(out) ==
    LET lines == SelectSeq(split(out, "\n"),
                           LAMBDA x : Len(split(x, "|")) = DbColumns)
    IN  IF lines = <<>> THEN Returned(<<>>)
        ELSE Returned(TableRecords(StripAll(split(lines[1], "|")), lines, 2, <<>>))

\* db_list, applied to the text cmd.run returned.
db_list(out) ==
    LET lines == SelectSeq(split(out, "\n"),
                           LAMBDA x : Len(split(x, "|")) = DbColumns)
    IN  IF lines = <<>> THEN Raised("IndexError")
        ELSE Returned(TableRecords(StripAll(split(lines[1], "|")), lines, 2, <<>>))

\* Variant of db_exists that compares the name with each record's first
\* value instead of the value of its "Name" field.
db_exists_FirstColumn(name, out) ==
    LET databases == db_list(out)
    IN  IF databases.exc # "" THEN [exc |-> databases.exc, val |-> FALSE]
        ELSE Returned(\E i \in 1..Len(databases.val) :
                          name = databases.val[i][1][2])

\* db_exists, applied to the text the listing command returned.
db_exists(name, out) ==
    LET databases == db_list(out)
    IN  IF databases.exc # "" THEN [exc |-> databases.exc, val |-> FALSE]
        ELSE Returned(\E i \in 1..Len(databases.val) :
                          name = DictGet(databases.val[i], NameField))

\* Variant of user_list that also takes lines of more segments for rows.
user_list_WiderRows(out) ==
    LET lines == SelectSeq(split(out, "\n"),
                           LAMBDA x : Len(split(x, "|")) >= RoleColumns)
    IN  IF lines = <<>> THEN Raised("IndexError")
        ELSE Returned(TableRecords(StripAll(split(lines[1], "|")), lines, 2, <<>>))

\* user_list, applied to the text cmd.run returned.
user_list(out) ==
    LET lines == SelectSeq(split(out, "\n"),
                           LAMBDA x : Len(split(x, "|")) = RoleColumns)
    IN  IF lines = <<>> THEN Raised("IndexError")
        ELSE Returned(TableRecords(StripAll(split(lines[1], "|")), lines, 2, <<>>))

\* user_exists, applied to the text the listing command returned.
user_exists(name, out) ==
    LET users == user_list(out)
    IN  IF users.exc # "" THEN [exc |-> users.exc, val |-> FALSE]
        ELSE Returned(\E i \in 1..Len(users.val) :
                          name = DictGet(users.val[i], RolnameField))

(***************************************************************************)
(* The external tools: the text psql prints                                *)
(***************************************************************************)
\* A table cell as psql pads it: <<spaces before, content, spaces after>>.
\* The content has no surrounding blanks, no "|" and no line break.
Spaces(n) == [i \in 1..n |-> " "]
RawCell(c) == Spaces(c[1]) \o c[2] \o Spaces(c[3])
Padded(core) == <<1, core, 1>>

RECURSIVE JoinWith(_, _)
JoinWith(parts, sep) ==
    IF parts = <<>> THEN <<>>
    ELSE IF Len(parts) = 1 THEN parts[1]
    ELSE parts[1] \o <<sep>> \o JoinWith(Tail(parts), sep)

\* One printed line from its cells, and the whole output from its lines.
LineText(cells) == JoinWith([i \in 1..Len(cells) |-> RawCell(cells[i])], "|")
OutputText(lines) == JoinWith([i \in 1..Len(lines) |-> LineText(lines[i])], "\n")

ColumnTag == <<"1", "2", "3", "4", "5", "6", "7", "8", "9", "a", "b", "c", "d", "e">>

\* A header line of n cells whose first field is `field`; the other field
\* names are distinct.
HeaderLine(n, field) ==
    [i \in 1..n |-> IF i = 1 THEN Padded(field) ELSE Padded(<<"c", ColumnTag[i]>>)]

\* A line of n cells with the given first cell.
RowLine(n, first) == [i \in 1..n |-> IF i = 1 THEN first ELSE Padded(<<"x">>)]

TitleLine == << <<4, <<"L", "i", "s", "t">>, 0>> >>
DividerLine == << <<0, <<"-", "+", "-">>, 0>> >>
BlankLine == << <<0, <<>>, 0>> >>
\* The second line psql prints for a row whose last column wraps: its
\* first cell is blank.
ContinuationLine(n) == RowLine(n, <<3, <<>>, 0>>)
FooterLine == << <<0, <<"(", "r", "o", "w", "s", ")">>, 0>> >>

\* What psql prints when it cannot connect: no table at all.
ConnectError == << << <<0, <<"p", "s", "q", "l", ":", " ", "e", "r", "r", "o", "r">>, 0>> >> >>
\* What the shell prints when there is no psql to run.
ToolAbsent == << << <<0, <<"s", "h", ":", " ", "n", "o", "t", " ", "f", "o", "u", "n", "d">>, 0>> >> >>
\* A command that prints nothing.
NoOutput == <<BlankLine>>
\* What cmd.run returns for a listing command that exits with a failure:
\* cmd.run hands back the text and not the exit status.
FailedOutputs == {ConnectError, ToolAbsent, NoOutput}

(***************************************************************************)
(* State                                                                   *)
(***************************************************************************)
VARIABLES
    dbs,        \* the server: names of its databases (besides the built-in one)
    roles,      \* the server: names of its roles (besides the built-in one)
    opts,       \* __opts__: the minion's configuration map
    pillar,     \* __pillar__: the shared configuration map
    cargs,      \* the connection arguments the caller passes (None: not passed)
    calls,      \* per caller: the state-function call it is making or made last
    prev,       \* the call that finished before the current one started
    rOut,       \* resolver run: what _connection_defaults returned
    rDone,      \* resolver run: the function has been applied
    pKind,      \* parser run: "db" or "role"
    pIn,        \* parser run: the listing output, as lines of cells
    pName,      \* parser run: the name looked for
    pRes,       \* parser run: what db_list/db_exists (user_list/user_exists) gave
    pDone,      \* parser run: the functions have been applied
    jails,      \* poudriere: names of the jails it manages
    confDir,    \* the directory /usr/local/etc/poudriere.d exists
    confFiles,  \* the jails that have a <name>-make.conf file in it
    jcall       \* the poudriere module call being made or made last

serverVars == <<dbs, roles>>
configVars == <<opts, pillar, cargs>>
callVars == <<calls, prev>>
resolveVars == <<rOut, rDone>>
parseVars == <<pKind, pIn, pName, pRes, pDone>>
jailVars == <<jails, confDir, confFiles, jcall>>
vars == <<dbs, roles, opts, pillar, cargs, calls, prev, rOut, rDone,
          pKind, pIn, pName, pRes, pDone, jails, confDir, confFiles, jcall>>

(***************************************************************************)
(* The server and the commands run against it                              *)
(***************************************************************************)
NameA == <<"a">>
NameUpperA == <<"A">>
NameOther == <<"p", "g">>
\* A name no database of the server has.
NameT == <<"t">>
\* Names the callers manage.
Names == {NameA}

Procs == {"c1", "c2"}

Columns(kind) == IF kind = "db" THEN DbColumns ELSE RoleColumns
IdField(kind) == IF kind = "db" THEN NameField ELSE RolnameField

RECURSIVE SetToSeq(_)
SetToSeq(S) ==
    IF S = {} THEN <<>>
    ELSE LET x == CHOOSE y \in S : TRUE IN <<x>> \o SetToSeq(S \ {x})

\* What `psql -l` (kind "db") or `SELECT * FROM pg_roles` (kind "role")
\* prints for a server holding `present` besides its built-in entry.
ListingOutput(kind, present) ==
    LET n == Columns(kind)
        rows == SetToSeq(present)
    IN  <<TitleLine, HeaderLine(n, IdField(kind)), DividerLine,
          RowLine(n, Padded(NameOther)), ContinuationLine(n)>>
        \o [i \in 1..Len(rows) |-> RowLine(n, <<1, rows[i], 2>>)]
        \o <<FooterLine, BlankLine>>

\* The server the caller's own connection arguments lead to.
ServerTarget ==
    LET r == connection_defaults(cargs, opts, pillar) IN <<r.pghost, r.pgport>>

Stored(kind) == IF kind = "db" THEN dbs ELSE roles

\* The outputs a listing command can print: run against the server, its
\* listing, or an error when it cannot connect; run against another address,
\* whatever is there.
ListingOutputs(kind, name, conn) ==
    IF <<conn.pghost, conn.pgport>> = ServerTarget
    THEN {ListingOutput(kind, Stored(kind))} \cup FailedOutputs
    ELSE {ListingOutput(kind, {}), ListingOutput(kind, {name})} \cup FailedOutputs

ListingOp(kind) == IF kind = "db" THEN "psql -l" ELSE "psql pg_roles"
MutatingOps == {"createdb", "dropdb", "psql terminate", "psql CREATE USER",
                "psql ALTER USER", "dropuser"}

\* One external command as cmd.run saw it, with what came of it.
Command(op, name, conn, res) ==
    [op |-> op, name |-> name, pguser |-> conn.pguser, pghost |-> conn.pghost,
     pgport |-> conn.pgport, env |-> CommandEnv(conn.pgpassword), res |-> res]

ExistsResult(r) == IF r.exc # "" THEN r.exc ELSE IF r.val THEN "True" ELSE "False"

\* db_exists / user_exists called with connection arguments a: the command
\* it runs and what it returns, for each output the command can print.
Probes(kind, name, a) ==
    LET conn == connection_defaults(a, opts, pillar)
    IN  { LET r == IF kind = "db" THEN db_exists(name, OutputText(out))
                   ELSE user_exists(name, OutputText(out))
          IN  [cmd |-> Command(ListingOp(kind), <<>>, conn, ExistsResult(r))
                          @@ [failed |-> out \in FailedOutputs],
               out |-> r]
          : out \in ListingOutputs(kind, name, conn) }

(***************************************************************************)
(* salt/states: the result dictionaries                                    *)
(***************************************************************************)
Comment(text, name) == <<text, name>>

\* postgres_database.present, postgres_user.present: ret as first built
PresentRet(what, name) ==
    [name |-> name, changes |-> {}, result |-> "True",
     comment |-> Comment(IF what = "Database" THEN "Database {0} is already present"
                         ELSE "User {0} is already present", name)]

\* postgres_database.absent, postgres_user.absent: ret as first built
AbsentRet(name) ==
    [name |-> name, changes |-> {}, result |-> "True", comment |-> Comment("", name)]

IsPresentFn(fn) == fn \in {"postgres_database.present", "postgres_user.present"}
IsDbFn(fn) == fn \in {"postgres_database.present", "postgres_database.absent"}
KindOf(fn) == IF IsDbFn(fn) THEN "db" ELSE "role"
What(fn) == IF IsDbFn(fn) THEN "Database" ELSE "User"

StateFns == {"postgres_database.present", "postgres_database.absent",
             "postgres_user.present", "postgres_user.absent"}

\* The module functions called on their own, and where each begins.
ModuleFns == {"postgres.db_create", "postgres.db_remove",
              "postgres.user_update", "postgres.user_remove"}
ModulePc(fn) ==
    CASE fn = "postgres.db_create" -> "db_create"
      [] fn = "postgres.db_remove" -> "db_remove"
      [] fn = "postgres.user_update" -> "user_update"
      [] fn = "postgres.user_remove" -> "user_remove"

\* A call: the function and its arguments (template: db_create's, <<>> when
\* not passed; force: db_remove's), where it is, the commands it has run,
\* the lines it has logged, and what it returned (ret from a state function,
\* val from a module function) or raised.
IdleCall ==
    [fn |-> "", name |-> <<>>, test |-> FALSE, template |-> <<>>, force |-> FALSE,
     pc |-> "idle", ret |-> AbsentRet(<<>>), val |-> None,
     cmds |-> <<>>, log |-> <<>>, exc |-> ""]

NewCall(fn, name, test) ==
    [IdleCall EXCEPT !.fn = fn, !.name = name, !.test = test, !.pc = fn,
         !.ret = IF IsPresentFn(fn) THEN PresentRet(What(fn), name) ELSE AbsentRet(name)]

NewModuleCall(fn, name, template, force) ==
    [IdleCall EXCEPT !.fn = fn, !.name = name, !.template = template,
         !.force = force, !.pc = ModulePc(fn)]

Running(c) == c.pc \notin {"idle", "done", "raised"}

\* The call goes on at pc, returns ret, or lets an exception through.
GoTo(c, pc) == [c EXCEPT !.pc = pc]
Return(c, ret) == [c EXCEPT !.pc = "done", !.ret = ret]
Raise(c, exc) == [c EXCEPT !.pc = "raised", !.exc = exc]
Ran(c, cmd) == [c EXCEPT !.cmds = Append(@, cmd)]
\* A module function called on its own returns v; log.info writes a line.
ReturnValue(c, v) == [c EXCEPT !.pc = "done", !.val = v]
Log(c, text, name) == [c EXCEPT !.log = Append(@, Comment(text, name))]
PyBool(b) == IF b THEN "True" ELSE "False"


(***************************************************************************)
(* salt/states/postgres_database.py and the module functions it calls      *)
(***************************************************************************)
\* Variant of present that goes on to db_create whatever db_exists returned.
DbPresentChecked_AlwaysCreates(c, exists) ==
    IF c.test
    THEN Return(c, [c.ret EXCEPT !.result = "None",
                        !.comment = Comment("Database {0} is set to be created", c.name)])
    ELSE GoTo(c, "db_create")

\* present, after its db_exists call returned `exists`.
DbPresentChecked(c, exists) ==
    IF exists THEN Return(c, c.ret)
    ELSE IF c.test
    THEN Return(c, [c.ret EXCEPT !.result = "None",
                        !.comment = Comment("Database {0} is set to be created", c.name)])
    ELSE GoTo(c, "db_create")

\* present, after db_create returned `created`.
DbPresentCreated(c, created) ==
    IF created
    THEN Return(c, [c.ret EXCEPT
                        !.comment = Comment("The database {0} has been created", c.name),
                        !.changes = {<<c.name, "Present">>}])
    ELSE Return(c, [c.ret EXCEPT
                        !.comment = Comment("Failed to create database {0}", c.name),
                        !.result = "False"])

\* db_create returns `created`: to present, or to whoever called it.
DbCreateReturn(c, created) ==
    IF c.fn = "postgres.db_create" THEN ReturnValue(c, PyBool(created))
    ELSE DbPresentCreated(c, created)

\* db_create, after its first db_exists call returned `exists`.
DbCreateChecked(c, exists) ==
    IF exists THEN DbCreateReturn(Log(c, "DB '{0}' already exists", c.name), FALSE)
    ELSE IF c.template # <<>> THEN GoTo(c, "db_create:template")
    ELSE GoTo(c, "db_create:createdb")

\* Variant of db_create that uses the template without looking for it.
DbCreateTemplateChecked_Unchecked(c, exists) == GoTo(c, "db_create:createdb")

\* db_create, after db_exists(template) returned `exists`.
DbCreateTemplateChecked(c, exists) ==
    IF exists THEN GoTo(c, "db_create:createdb")
    ELSE DbCreateReturn(Log(c, "template '{0}' does not exist.", c.template), FALSE)

\* Variant of db_create that returns True once createdb has run.
DbCreateVerified_Unchecked(c, exists) == DbCreateReturn(c, TRUE)

\* Variant of db_create that returns the opposite of what its last check found.
DbCreateVerified_Negated(c, exists) == DbCreateReturn(c, ~exists)

\* db_create, after the db_exists call that follows createdb returned `exists`.
DbCreateVerified(c, exists) ==
    IF exists THEN DbCreateReturn(c, TRUE)
    ELSE DbCreateReturn(Log(c, "Failed to create DB '{0}'", c.name), FALSE)

\* absent, after db_remove returned `removed`.
DbAbsentRemoved(c, removed) ==
    IF removed
    THEN Return(c, [c.ret EXCEPT
                        !.comment = Comment("Database {0} has been removed", c.name),
                        !.changes = {<<c.name, "Absent">>}])
    ELSE Return(c, [c.ret EXCEPT
                        !.comment = Comment("Database {0} is not present, so it cannot be removed",
                                            c.name)])

\* Variant of absent that does not look at the test option.
DbAbsentChecked_IgnoresTest(c, exists) ==
    IF exists THEN GoTo(c, "db_remove")
    ELSE Return(c, [c.ret EXCEPT
                        !.comment = Comment("Database {0} is not present, so it cannot be removed",
                                            c.name)])

\* absent, after its db_exists call returned `exists`.
DbAbsentChecked(c, exists) ==
    IF exists
    THEN IF c.test
         THEN Return(c, [c.ret EXCEPT !.result = "None",
                             !.comment = Comment("Database {0} is set to be removed", c.name)])
         ELSE GoTo(c, "db_remove")
    ELSE Return(c, [c.ret EXCEPT
                        !.comment = Comment("Database {0} is not present, so it cannot be removed",
                                            c.name)])

\* db_remove returns `removed`: to absent, or to whoever called it.
DbRemoveReturn(c, removed) ==
    IF c.fn = "postgres.db_remove" THEN ReturnValue(c, PyBool(removed))
    ELSE DbAbsentRemoved(c, removed)

\* db_remove, after its first db_exists call returned `exists`.
DbRemoveChecked(c, exists) ==
    IF ~exists THEN DbRemoveReturn(Log(c, "DB '{0}' does not exist", c.name), FALSE)
    ELSE IF c.force THEN GoTo(c, "db_remove:terminate")
    ELSE GoTo(c, "db_remove:dropdb")

\* Variant of db_remove that gives up when the sessions were not terminated.
DbRemoveTerminated_GivesUp(c, ok) ==
    IF ok THEN GoTo(c, "db_remove:dropdb") ELSE DbRemoveReturn(c, FALSE)

\* db_remove with force, after the command that terminates the sessions
\* ran: its outcome is not looked at.
DbRemoveTerminated(c, ok) == GoTo(c, "db_remove:dropdb")

\* Variant of db_remove that runs dropdb again while the database is listed.
DbRemoveVerified_Retries(c, exists) ==
    IF ~exists THEN DbRemoveReturn(c, TRUE) ELSE GoTo(c, "db_remove:dropdb")

\* db_remove, after the db_exists call that follows dropdb returned `exists`.
DbRemoveVerified(c, exists) ==
    IF ~exists THEN DbRemoveReturn(c, TRUE)
    ELSE DbRemoveReturn(Log(c, "Failed to delete DB '{0}'.", c.name), FALSE)

(***************************************************************************)
(* salt/states/postgres_user.py and the module functions it calls          *)
(***************************************************************************)
\* Variant of present that leaves result True in a dry run.
UserPresentChecked_KeepsResult(c, exists) ==
    IF exists THEN Return(c, c.ret)
    ELSE IF c.test
    THEN Return(c, [c.ret EXCEPT
                        !.comment = Comment("User {0} is set to be created", c.name)])
    ELSE GoTo(c, "user_create")

\* present, after its user_exists call returned `exists`.
UserPresentChecked(c, exists) ==
    IF exists THEN Return(c, c.ret)
    ELSE IF c.test
    THEN Return(c, [c.ret EXCEPT !.result = "None",
                        !.comment = Comment("User {0} is set to be created", c.name)])
    ELSE GoTo(c, "user_create")

\* present, after user_create returned `created` (False, or cmd.run's text).
UserPresentCreated(c, created) ==
    IF Truthy(created)
    THEN Return(c, [c.ret EXCEPT
                        !.comment = Comment("The user {0} has been created", c.name),
                        !.changes = {<<c.name, "Present">>}])
    ELSE Return(c, [c.ret EXCEPT
                        !.comment = Comment("Failed to create user {0}", c.name),
                        !.result = "False"])

\* user_create, after its user_exists call returned `exists`.
UserCreateChecked(c, exists) ==
    IF exists THEN UserPresentCreated(Log(c, "User '{0}' already exists", c.name), None)
    ELSE GoTo(c, "user_create:psql")

\* user_create returns what cmd.run returned for the CREATE USER command.
UserCreateRan(c, output) == UserPresentCreated(c, output)

\* absent, after user_remove returned `removed`.
UserAbsentRemoved(c, removed) ==
    IF removed
    THEN Return(c, [c.ret EXCEPT
                        !.comment = Comment("User {0} has been removed", c.name),
                        !.changes = {<<c.name, "Absent">>}])
    ELSE Return(c, c.ret)

\* Variant of absent without the else branch that sets the comment.
UserAbsentChecked_NoComment(c, exists) ==
    IF exists
    THEN IF c.test
         THEN Return(c, [c.ret EXCEPT !.result = "None",
                             !.comment = Comment("User {0} is set to be removed", c.name)])
         ELSE GoTo(c, "user_remove")
    ELSE Return(c, c.ret)

\* absent, after its user_exists call returned `exists`.
UserAbsentChecked(c, exists) ==
    IF exists
    THEN IF c.test
         THEN Return(c, [c.ret EXCEPT !.result = "None",
                             !.comment = Comment("User {0} is set to be removed", c.name)])
         ELSE GoTo(c, "user_remove")
    ELSE Return(c, [c.ret EXCEPT
                        !.comment = Comment("User {0} is not present, so it cannot be removed",
                                            c.name)])

\* user_remove returns `removed`: to absent, or to whoever called it.
UserRemoveReturn(c, removed) ==
    IF c.fn = "postgres.user_remove" THEN ReturnValue(c, PyBool(removed))
    ELSE UserAbsentRemoved(c, removed)

\* user_remove, after its first user_exists call returned `exists`.
UserRemoveChecked(c, exists) ==
    IF ~exists THEN UserRemoveReturn(Log(c, "User '{0}' does not exist", c.name), FALSE)
    ELSE GoTo(c, "user_remove:dropuser")

\* user_remove, after the user_exists call that follows dropuser returned `exists`.
UserRemoveVerified(c, exists) ==
    IF ~exists THEN UserRemoveReturn(c, TRUE)
    ELSE UserRemoveReturn(Log(c, "Failed to delete user '{0}'.", c.name), FALSE)

\* user_update, after its user_exists call returned `exists`.
UserUpdateChecked(c, exists) ==
    IF ~exists THEN ReturnValue(Log(c, "User '{0}' does not exist", c.name), "False")
    ELSE GoTo(c, "user_update:psql")

\* user_update returns what cmd.run returned for the ALTER USER command.
UserUpdateRan(c, output) == ReturnValue(c, output)

\* user_remove and user_update call user_exists(username, pguser, pghost,
\* pgport): the three values land in its pguser, pgpassword and pghost
\* parameters and its pgport is left out.
UserRemoveProbeArgs(r) == ConnArgs(r.pguser, r.pghost, r.pgport, None)

(***************************************************************************)
(* The steps of a call: one per external command                           *)
(***************************************************************************)
\* What the CREATE USER command prints: its command tag when it took effect,
\* an error message or nothing when it did not.
CreateUserOutputs == {"CREATE ROLE", "ERROR:  role cannot be created", ""}

\* What the ALTER USER command prints: its command tag or an error message.
AlterUserOutputs == {"ALTER ROLE", "ERROR:  role cannot be altered"}

\* The templates db_create is called with: none, the built-in database, a
\* database the server does not have.
Templates == {<<>>, NameOther, NameT}

\* A caller calls a state function or a module function.
Call(p) ==
    /\ ~Running(calls[p])
    /\ \/ \E fn \in StateFns, name \in Names, test \in BOOLEAN :
              calls' = [calls EXCEPT ![p] = NewCall(fn, name, test)]
       \/ \E fn \in ModuleFns, name \in Names, template \in Templates,
             force \in BOOLEAN :
              /\ template # <<>> => fn = "postgres.db_create"
              /\ force => fn = "postgres.db_remove"
              /\ calls' = [calls EXCEPT ![p] = NewModuleCall(fn, name, template, force)]
    /\ UNCHANGED <<serverVars, configVars, jailVars, prev, resolveVars, parseVars>>

\* A caller starts a state function.
Start(p) ==
    /\ ~Running(calls[p])
    /\ \E fn \in StateFns, name \in Names, test \in BOOLEAN :
           calls' = [calls EXCEPT ![p] = NewCall(fn, name, test)]
    /\ prev' = calls[p]
    /\ UNCHANGED <<serverVars, configVars, jailVars, resolveVars, parseVars>>

\* How the caller of db_exists / user_exists goes on when the call made at
\* c.pc returns `exists`.
AfterProbe(c, exists) ==
    CASE c.pc = "postgres_database.present" -> DbPresentChecked(c, exists)
      [] c.pc = "db_create" -> DbCreateChecked(c, exists)
      [] c.pc = "db_create:template" -> DbCreateTemplateChecked(c, exists)
      [] c.pc = "db_create:verify" -> DbCreateVerified(c, exists)
      [] c.pc = "postgres_database.absent" -> DbAbsentChecked(c, exists)
      [] c.pc = "db_remove" -> DbRemoveChecked(c, exists)
      [] c.pc = "db_remove:verify" -> DbRemoveVerified(c, exists)
      [] c.pc = "postgres_user.present" -> UserPresentChecked(c, exists)
      [] c.pc = "user_create" -> UserCreateChecked(c, exists)
      [] c.pc = "postgres_user.absent" -> UserAbsentChecked(c, exists)
      [] c.pc = "user_remove" -> UserRemoveChecked(c, exists)
      [] c.pc = "user_remove:verify" -> UserRemoveVerified(c, exists)
      [] c.pc = "user_update" -> UserUpdateChecked(c, exists)

\* A db_exists / user_exists call at pc for `name`, made with connection
\* arguments a: the listing command runs, and the call returns or raises.
ProbeNamed(p, pc, kind, name, a) ==
    /\ calls[p].pc = pc
    /\ \E pr \in Probes(kind, name, a) :
           LET c == Ran(calls[p], pr.cmd)
           IN  calls' = [calls EXCEPT ![p] =
                   IF pr.out.exc # "" THEN Raise(c, pr.out.exc)
                   ELSE AfterProbe(c, pr.out.val)]
    /\ UNCHANGED <<serverVars, configVars, jailVars, prev, resolveVars, parseVars>>

\* The same for the name the call is about.
ProbeStep(p, pc, kind, a) == ProbeNamed(p, pc, kind, calls[p].name, a)

Resolved == connection_defaults(cargs, opts, pillar)

\* Variant of a mutating command that runs only while the server is as the
\* call's check found it.
CommandStep_Rechecks(p, pc, op, kind, adds, pcNext) ==
    /\ calls[p].pc = pc
    /\ adds <=> calls[p].name \notin Stored(kind)
    /\ \E ok \in BOOLEAN :
           LET c == Ran(calls[p], Command(op, calls[p].name, Resolved,
                                          IF ok THEN "done" ELSE "failed"))
               after == IF ~ok THEN Stored(kind)
                        ELSE IF adds THEN Stored(kind) \cup {c.name}
                        ELSE Stored(kind) \ {c.name}
           IN  /\ calls' = [calls EXCEPT ![p] = GoTo(c, pcNext)]
               /\ dbs' = IF kind = "db" THEN after ELSE dbs
               /\ roles' = IF kind = "role" THEN after ELSE roles
    /\ UNCHANGED <<configVars, jailVars, prev, resolveVars, parseVars>>

\* A mutating command at pc: it takes effect on the server or it does not.
CommandStep(p, pc, op, kind, adds, pcNext) ==
    /\ calls[p].pc = pc
    /\ \E ok \in BOOLEAN :
           LET c == Ran(calls[p], Command(op, calls[p].name, Resolved,
                                          IF ok THEN "done" ELSE "failed"))
               after == IF ~ok THEN Stored(kind)
                        ELSE IF adds THEN Stored(kind) \cup {c.name}
                        ELSE Stored(kind) \ {c.name}
           IN  /\ calls' = [calls EXCEPT ![p] = GoTo(c, pcNext)]
               /\ dbs' = IF kind = "db" THEN after ELSE dbs
               /\ roles' = IF kind = "role" THEN after ELSE roles
    /\ UNCHANGED <<configVars, jailVars, prev, resolveVars, parseVars>>

DbPresent_db_exists(p) ==
    ProbeStep(p, "postgres_database.present", "db", cargs)

DbCreate_db_exists(p) ==
    ProbeStep(p, "db_create", "db", Resolved)

\* db_create looks for the template it was given.
DbCreate_template_exists(p) ==
    ProbeNamed(p, "db_create:template", "db", calls[p].template, Resolved)

DbCreate_createdb(p) ==
    CommandStep(p, "db_create:createdb", "createdb", "db", TRUE, "db_create:verify")

DbCreate_verify(p) ==
    ProbeStep(p, "db_create:verify", "db", Resolved)

DbAbsent_db_exists(p) ==
    ProbeStep(p, "postgres_database.absent", "db", cargs)

DbRemove_db_exists(p) ==
    ProbeStep(p, "db_remove", "db", Resolved)

\* db_remove with force runs the query that terminates the sessions on the
\* database; the query does so or fails.
DbRemove_terminate(p) ==
    /\ calls[p].pc = "db_remove:terminate"
    /\ \E ok \in BOOLEAN :
           LET c == Ran(calls[p], Command("psql terminate", calls[p].name, Resolved,
                                          IF ok THEN "done" ELSE "failed"))
           IN  calls' = [calls EXCEPT ![p] = DbRemoveTerminated(c, ok)]
    /\ UNCHANGED <<serverVars, configVars, jailVars, prev, resolveVars, parseVars>>

DbRemove_dropdb(p) ==
    CommandStep(p, "db_remove:dropdb", "dropdb", "db", FALSE, "db_remove:verify")

DbRemove_verify(p) ==
    ProbeStep(p, "db_remove:verify", "db", Resolved)

UserPresent_user_exists(p) ==
    ProbeStep(p, "postgres_user.present", "role", cargs)

UserCreate_user_exists(p) ==
    ProbeStep(p, "user_create", "role", Resolved)

\* user_create runs the CREATE USER command and returns its output.
UserCreate_psql(p) ==
    /\ calls[p].pc = "user_create:psql"
    /\ \E output \in CreateUserOutputs :
           LET ok == output = "CREATE ROLE"
               c == Ran(calls[p], Command("psql CREATE USER", calls[p].name, Resolved,
                                          IF ok THEN "done" ELSE "failed"))
           IN  /\ calls' = [calls EXCEPT ![p] = UserCreateRan(c, output)]
               /\ roles' = IF ok THEN roles \cup {c.name} ELSE roles
    /\ UNCHANGED <<dbs, configVars, jailVars, prev, resolveVars, parseVars>>

UserAbsent_user_exists(p) ==
    ProbeStep(p, "postgres_user.absent", "role", cargs)

UserRemove_user_exists(p) ==
    ProbeStep(p, "user_remove", "role", UserRemoveProbeArgs(Resolved))

UserRemove_dropuser(p) ==
    CommandStep(p, "user_remove:dropuser", "dropuser", "role", FALSE, "user_remove:verify")

UserRemove_verify(p) ==
    ProbeStep(p, "user_remove:verify", "role", UserRemoveProbeArgs(Resolved))

UserUpdate_user_exists(p) ==
    ProbeStep(p, "user_update", "role", UserRemoveProbeArgs(Resolved))

\* user_update runs the ALTER USER command and returns its output.
UserUpdate_psql(p) ==
    /\ calls[p].pc = "user_update:psql"
    /\ \E output \in AlterUserOutputs :
           LET c == Ran(calls[p], Command("psql ALTER USER", calls[p].name, Resolved,
                                          IF output = "ALTER ROLE" THEN "done"
                                          ELSE "failed"))
           IN  calls' = [calls EXCEPT ![p] = UserUpdateRan(c, output)]
    /\ UNCHANGED <<serverVars, configVars, jailVars, prev, resolveVars, parseVars>>

Step(p) ==
    \/ Start(p)
    \/ DbPresent_db_exists(p)
    \/ DbCreate_db_exists(p)
    \/ DbCreate_createdb(p)
    \/ DbCreate_verify(p)
    \/ DbAbsent_db_exists(p)
    \/ DbRemove_db_exists(p)
    \/ DbRemove_dropdb(p)
    \/ DbRemove_verify(p)
    \/ UserPresent_user_exists(p)
    \/ UserCreate_user_exists(p)
    \/ UserCreate_psql(p)
    \/ UserAbsent_user_exists(p)
    \/ UserRemove_user_exists(p)
    \/ UserRemove_dropuser(p)
    \/ UserRemove_verify(p)

(***************************************************************************)
(* salt/modules/poudriere.py                                               *)
(***************************************************************************)
\* str.split() without a separator: the runs of non-blank characters.
SplitBlank(s) ==
    LET starts == {i \in 1..Len(s) : ~IsSpace(s[i]) /\ (i = 1 \/ IsSpace(s[i - 1]))}
        Nth(k) == CHOOSE i \in starts : Cardinality({j \in starts : j <= i}) = k
        End(i) == CHOOSE j \in i..Len(s) :
                      /\ \A m \in i..j : ~IsSpace(s[m])
                      /\ j = Len(s) \/ IsSpace(s[j + 1])
    IN  [k \in 1..Cardinality(starts) |-> SubSeq(s, Nth(k), End(Nth(k)))]

\* list_jails, applied to the text cmd.run returned for `poudriere jails -l`.
list_jails(out) == split(out, "\n")

\* The loop of is_jail over the lines from the i-th on: jail.split()[0]
\* raises IndexError on a line without any field.
RECURSIVE IsJailFrom(_, _, _)
IsJailFrom(name, lines, i) ==
    IF i > Len(lines) THEN Returned(FALSE)
    ELSE LET fields == SplitBlank(lines[i])
         IN  IF fields = <<>> THEN [exc |-> "IndexError", val |-> FALSE]
             ELSE IF fields[1] = name THEN Returned(TRUE)
             ELSE IsJailFrom(name, lines, i + 1)

\* is_jail, applied to the text the listing command returned.
is_jail(name, out) == IsJailFrom(name, list_jails(out), 1)

\* The jails the caller manages: the name of one begins with the other's.
JailOne == <<"j", "1">>
JailTen == <<"j", "1", "0">>
JailNames == {JailOne, JailTen}

\* What `poudriere jails -l` prints: a header line and a line per jail.
JailHeader == <<"J", "A", "I", "L", " ", " ", "V", "E", "R", " ", "A", "R", "C", "H">>
JailLine(name) == name \o <<" ", " ", "9", ".", "0", " ", "a", "m", "d", "6", "4">>
JailListing(present) ==
    LET rows == SetToSeq(present)
    IN  JoinWith(<<JailHeader>> \o [i \in 1..Len(rows) |-> JailLine(rows[i])], "\n")

\* The texts cmd.run can return for `poudriere jails -l`: the listing, the
\* listing with its final line break, or nothing when the command fails.
JailListingOutputs == {JailListing(jails), JailListing(jails) \o <<"\n">>, <<>>}

JailCommand(op, name, res) == [op |-> op, name |-> name, res |-> res]

IdleJailCall ==
    [fn |-> "", name |-> <<>>, pc |-> "idle", val |-> Comment("", <<>>),
     cmds |-> <<>>, exc |-> ""]
NewJailCall(fn, name) == [IdleJailCall EXCEPT !.fn = fn, !.name = name, !.pc = fn]

\* create_jail, after its first is_jail call returned `exists`.
CreateJailChecked(c, exists) ==
    IF exists THEN ReturnValue(c, Comment("{0} already exists", c.name))
    ELSE GoTo(c, "create_jail:create")

\* create_jail, after the is_jail call that follows the command returned.
CreateJailVerified(c, exists) ==
    IF exists THEN ReturnValue(c, Comment("Created jail {0}", c.name))
    ELSE ReturnValue(c, Comment("Issue creating jail {0}", c.name))

\* delete_jail, after its first is_jail call returned `exists`.
DeleteJailChecked(c, exists) ==
    IF exists THEN GoTo(c, "delete_jail:delete")
    ELSE ReturnValue(c, Comment("Looks like jail {0} has not been created", c.name))

\* delete_jail, after the is_jail call that follows the delete command
\* returned `exists`: os.path.isfile decides whether rm runs.
DeleteJailVerified(c, exists) ==
    IF exists
    THEN ReturnValue(c, Comment("Looks like there was an issue deleteing jail {0}", c.name))
    ELSE IF c.name \in confFiles THEN GoTo(c, "delete_jail:rm")
    ELSE ReturnValue(c, Comment("Deleted jail {0}", c.name))

JailFns == {"create_jail", "delete_jail"}

\* A caller calls create_jail or delete_jail.
StartJail ==
    /\ ~Running(jcall)
    /\ \E fn \in JailFns, name \in JailNames : jcall' = NewJailCall(fn, name)
    /\ UNCHANGED <<jails, confDir, confFiles, serverVars, configVars, callVars,
                   resolveVars, parseVars>>

\* How the caller of is_jail goes on when the call made at c.pc returns
\* `exists`.
AfterJailProbe(c, exists) ==
    CASE c.pc = "create_jail" -> CreateJailChecked(c, exists)
      [] c.pc = "create_jail:verify" -> CreateJailVerified(c, exists)
      [] c.pc = "delete_jail" -> DeleteJailChecked(c, exists)
      [] c.pc = "delete_jail:verify" -> DeleteJailVerified(c, exists)

\* An is_jail call at pc: the listing command runs, and is_jail returns or
\* raises.
JailProbeStep(pc) ==
    /\ jcall.pc = pc
    /\ \E out \in JailListingOutputs :
           LET r == is_jail(jcall.name, out)
               c == Ran(jcall, JailCommand("poudriere jails -l", <<>>, ExistsResult(r)))
           IN  jcall' = IF r.exc # "" THEN Raise(c, r.exc)
                        ELSE AfterJailProbe(c, r.val)
    /\ UNCHANGED <<jails, confDir, confFiles, serverVars, configVars, callVars,
                   resolveVars, parseVars>>

CreateJail_is_jail == JailProbeStep("create_jail")

\* create_jail runs `poudriere jails -c`: the jail is created or it is not;
\* make_pkgng_aware comes next, whatever came of the command.
CreateJail_create ==
    /\ jcall.pc = "create_jail:create"
    /\ \E ok \in BOOLEAN :
           /\ jcall' = GoTo(Ran(jcall, JailCommand("poudriere jails -c", jcall.name,
                                                   IF ok THEN "done" ELSE "failed")),
                            IF confDir THEN "make_pkgng_aware:echo"
                            ELSE "make_pkgng_aware:mkdir")
           /\ jails' = IF ok THEN jails \cup {jcall.name} ELSE jails
    /\ UNCHANGED <<confDir, confFiles, serverVars, configVars, callVars,
                   resolveVars, parseVars>>

\* make_pkgng_aware, the directory missing: mkdir runs; without the
\* directory afterwards make_pkgng_aware returns, and create_jail goes on.
MakePkgngAware_mkdir ==
    /\ jcall.pc = "make_pkgng_aware:mkdir"
    /\ \E ok \in BOOLEAN :
           /\ jcall' = GoTo(Ran(jcall, JailCommand("mkdir", <<>>,
                                                   IF ok THEN "done" ELSE "failed")),
                            IF ok THEN "make_pkgng_aware:echo" ELSE "create_jail:verify")
           /\ confDir' = ok
    /\ UNCHANGED <<jails, confFiles, serverVars, configVars, callVars,
                   resolveVars, parseVars>>

\* make_pkgng_aware writes <name>-make.conf with echo; what it returns is
\* dropped by create_jail.
MakePkgngAware_echo ==
    /\ jcall.pc = "make_pkgng_aware:echo"
    /\ \E ok \in BOOLEAN :
           /\ jcall' = GoTo(Ran(jcall, JailCommand("echo", jcall.name,
                                                   IF ok THEN "done" ELSE "failed")),
                            "create_jail:verify")
           /\ confFiles' = IF ok THEN confFiles \cup {jcall.name} ELSE confFiles
    /\ UNCHANGED <<jails, confDir, serverVars, configVars, callVars,
                   resolveVars, parseVars>>

CreateJail_verify == JailProbeStep("create_jail:verify")

DeleteJail_is_jail == JailProbeStep("delete_jail")

\* delete_jail runs `poudriere jail -d`: the jail is deleted or it is not.
DeleteJail_delete ==
    /\ jcall.pc = "delete_jail:delete"
    /\ \E ok \in BOOLEAN :
           /\ jcall' = GoTo(Ran(jcall, JailCommand("poudriere jail -d", jcall.name,
                                                   IF ok THEN "done" ELSE "failed")),
                            "delete_jail:verify")
           /\ jails' = IF ok THEN jails \ {jcall.name} ELSE jails
    /\ UNCHANGED <<confDir, confFiles, serverVars, configVars, callVars,
                   resolveVars, parseVars>>

DeleteJail_verify == JailProbeStep("delete_jail:verify")

\* delete_jail removes the jail's make.conf file with rm -f and returns.
DeleteJail_rm ==
    /\ jcall.pc = "delete_jail:rm"
    /\ \E ok \in BOOLEAN :
           /\ jcall' = ReturnValue(Ran(jcall, JailCommand("rm", jcall.name,
                                                          IF ok THEN "done" ELSE "failed")),
                                   Comment("Deleted jail {0}", jcall.name))
           /\ confFiles' = IF ok THEN confFiles \ {jcall.name} ELSE confFiles
    /\ UNCHANGED <<jails, confDir, serverVars, configVars, callVars,
                   resolveVars, parseVars>>

(***************************************************************************)
(* Specification of the state functions called one after the other, as     *)
(* salt runs the states of one minion                                      *)
(***************************************************************************)
ResolveIdle == rOut = ConnArgs(None, None, None, None) /\ rDone = FALSE
ParseIdle ==
    /\ pKind = "db" /\ pIn = <<>> /\ pName = NameA
    /\ pRes = [list |-> Returned(<<>>), exists |-> Returned(FALSE)]
    /\ pDone = FALSE
CallsIdle == calls = [p \in Procs |-> IdleCall] /\ prev = IdleCall
JailIdle == jails = {} /\ confDir = FALSE /\ confFiles = {} /\ jcall = IdleJailCall
ServerIdle == dbs = {} /\ roles = {}

\* The connection settings of a behaviour: arguments, __opts__, __pillar__.
ConnChoices ==
    { <<ConnArgs(None, None, None, None), EmptyMap, EmptyMap>>,
      <<ConnArgs(None, "x.pw", "x.host", "x.port"), EmptyMap, EmptyMap>>,
      <<ConnArgs(None, None, None, None),
        [k \in {"postgres.pgpassword"} |-> "o.pw"],
        [k \in {"postgres.pgpassword", "postgres.pghost"} |->
            IF k = "postgres.pghost" THEN "p.host" ELSE "p.pw"]>>,
      <<ConnArgs("", "", "", ""), EmptyMap,
        [k \in {"postgres.pguser"} |-> "p.user"]>> }

Init ==
    /\ dbs \in SUBSET Names
    /\ roles \in SUBSET Names
    /\ \E ch \in ConnChoices : cargs = ch[1] /\ opts = ch[2] /\ pillar = ch[3]
    /\ CallsIdle
    /\ ResolveIdle
    /\ ParseIdle
    /\ JailIdle

Next == Step("c1")

Spec == Init /\ [][Next]_vars

(***************************************************************************)
(* Specification of the module functions, called on their own or by the    *)
(* state functions, one call at a time                                     *)
(***************************************************************************)
StepModule(p) ==
    \/ Call(p)
    \/ DbPresent_db_exists(p)
    \/ DbCreate_db_exists(p)
    \/ DbCreate_template_exists(p)
    \/ DbCreate_createdb(p)
    \/ DbCreate_verify(p)
    \/ DbAbsent_db_exists(p)
    \/ DbRemove_db_exists(p)
    \/ DbRemove_terminate(p)
    \/ DbRemove_dropdb(p)
    \/ DbRemove_verify(p)
    \/ UserPresent_user_exists(p)
    \/ UserCreate_user_exists(p)
    \/ UserCreate_psql(p)
    \/ UserAbsent_user_exists(p)
    \/ UserRemove_user_exists(p)
    \/ UserRemove_dropuser(p)
    \/ UserRemove_verify(p)
    \/ UserUpdate_user_exists(p)
    \/ UserUpdate_psql(p)

NextModule == StepModule("c1")

SpecModule == Init /\ [][NextModule]_vars

(***************************************************************************)
(* Specification of two callers running postgres_database state functions  *)
(* at the same time, each making one live call; their commands interleave  *)
(***************************************************************************)
InitConc ==
    /\ dbs \in SUBSET Names
    /\ roles = {}
    /\ cargs = ConnArgs(None, None, None, None) /\ opts = EmptyMap /\ pillar = EmptyMap
    /\ CallsIdle
    /\ ResolveIdle
    /\ ParseIdle
    /\ JailIdle

StartConc(p) ==
    /\ calls[p].pc = "idle"
    /\ \E fn \in {"postgres_database.present", "postgres_database.absent"},
          name \in Names :
           calls' = [calls EXCEPT ![p] = NewCall(fn, name, FALSE)]
    /\ UNCHANGED <<serverVars, configVars, jailVars, prev, resolveVars, parseVars>>

StepConc(p) ==
    \/ StartConc(p)
    \/ DbPresent_db_exists(p)
    \/ DbCreate_db_exists(p)
    \/ DbCreate_createdb(p)
    \/ DbCreate_verify(p)
    \/ DbAbsent_db_exists(p)
    \/ DbRemove_db_exists(p)
    \/ DbRemove_dropdb(p)
    \/ DbRemove_verify(p)

NextConc == \E p \in Procs : StepConc(p)

SpecConc == InitConc /\ [][NextConc]_vars

(***************************************************************************)
(* Specification of the poudriere module: create_jail called time and      *)
(* again on a host with any jails, directory and make.conf files           *)
(***************************************************************************)
InitJail ==
    /\ jails \in SUBSET JailNames
    /\ confDir \in BOOLEAN
    /\ confFiles \in SUBSET JailNames
    /\ confFiles # {} => confDir
    /\ jcall = IdleJailCall
    /\ ServerIdle
    /\ cargs = ConnArgs(None, None, None, None) /\ opts = EmptyMap /\ pillar = EmptyMap
    /\ CallsIdle
    /\ ResolveIdle
    /\ ParseIdle

NextJail ==
    \/ StartJail
    \/ CreateJail_is_jail
    \/ CreateJail_create
    \/ MakePkgngAware_mkdir
    \/ MakePkgngAware_echo
    \/ CreateJail_verify
    \/ DeleteJail_is_jail
    \/ DeleteJail_delete
    \/ DeleteJail_verify
    \/ DeleteJail_rm

SpecJail == InitJail /\ [][NextJail]_vars

\* The same calls on a host that starts without jails and make.conf files.
InitJailFresh ==
    /\ jails = {}
    /\ confFiles = {}
    /\ confDir \in BOOLEAN
    /\ jcall = IdleJailCall
    /\ ServerIdle
    /\ cargs = ConnArgs(None, None, None, None) /\ opts = EmptyMap /\ pillar = EmptyMap
    /\ CallsIdle
    /\ ResolveIdle
    /\ ParseIdle

SpecJailFresh == InitJailFresh /\ [][NextJail]_vars

(***************************************************************************)
(* Specification of the resolver runs: _connection_defaults applied to     *)
(* every combination of arguments, __opts__ and __pillar__ entries.        *)
(***************************************************************************)
Fields == {"pguser", "pgpassword", "pghost", "pgport"}
ConfigKey(f) ==
    CASE f = "pguser" -> "postgres.pguser"
      [] f = "pgpassword" -> "postgres.pgpassword"
      [] f = "pghost" -> "postgres.pghost"
      [] f = "pgport" -> "postgres.pgport"
ConfigKeys == {ConfigKey(f) : f \in Fields}

\* The value each source supplies for a field, when it supplies one.
ArgValue(f) ==
    CASE f = "pguser" -> "x.user" [] f = "pgpassword" -> "x.pw"
      [] f = "pghost" -> "x.host" [] f = "pgport" -> "x.port"
OptsValue(k) ==
    CASE k = "postgres.pguser" -> "o.user" [] k = "postgres.pgpassword" -> "o.pw"
      [] k = "postgres.pghost" -> "o.host" [] k = "postgres.pgport" -> "o.port"
PillarValue(k) ==
    CASE k = "postgres.pguser" -> "p.user" [] k = "postgres.pgpassword" -> "p.pw"
      [] k = "postgres.pghost" -> "p.host" [] k = "postgres.pgport" -> "p.port"

\* Arguments: not passed, passed empty, or passed with a value.
ResolveArgs ==
    { a \in [Fields -> {None, "", "x.user", "x.pw", "x.host", "x.port"}] :
          \A f \in Fields : a[f] \in {None, "", ArgValue(f)} }

\* __opts__: each key missing, empty or set.
ResolveOpts ==
    UNION { { m \in [D -> {"", "o.user", "o.pw", "o.host", "o.port"}] :
                  \A k \in D : m[k] \in {"", OptsValue(k)} }
            : D \in SUBSET ConfigKeys }

\* __pillar__: each key missing, empty or set.
ResolvePillar ==
    UNION { { m \in [D -> {"", "p.user", "p.pw", "p.host", "p.port"}] :
                  \A k \in D : m[k] \in {"", PillarValue(k)} }
            : D \in SUBSET ConfigKeys }

InitResolve ==
    /\ ServerIdle
    /\ cargs \in ResolveArgs
    /\ opts \in ResolveOpts
    /\ pillar \in ResolvePillar
    /\ CallsIdle
    /\ ResolveIdle
    /\ ParseIdle
    /\ JailIdle

ApplyResolver ==
    /\ ~rDone
    /\ rOut' = connection_defaults(cargs, opts, pillar)
    /\ rDone' = TRUE
    /\ UNCHANGED <<serverVars, configVars, jailVars, callVars, parseVars>>

NextResolve == ApplyResolver

SpecResolve == InitResolve /\ [][NextResolve]_vars

(***************************************************************************)
(* Specification of the parser runs: db_list, db_exists, user_list and     *)
(* user_exists applied to listing outputs of up to MaxLines lines.         *)
(***************************************************************************)
ParseNames == {NameA, NameUpperA}

LinePool(kind) ==
    LET n == Columns(kind)
    IN  { TitleLine, BlankLine,
          HeaderLine(n, IdField(kind)),
          RowLine(n, <<1, NameA, 1>>),
          RowLine(n, <<2, NameUpperA, 0>>),
          ContinuationLine(n),
          RowLine(n - 1, Padded(NameA)),
          RowLine(n + 1, Padded(NameA)) }

RECURSIVE SeqsUpTo(_, _)
SeqsUpTo(S, n) ==
    IF n = 0 THEN {<<>>}
    ELSE LET shorter == SeqsUpTo(S, n - 1)
         IN  shorter \cup {Append(s, x) : s \in shorter, x \in S}

NoResult == [list |-> Returned(<<>>), exists |-> Returned(FALSE)]

InitParse ==
    /\ ServerIdle
    /\ cargs = ConnArgs(None, None, None, None) /\ opts = EmptyMap /\ pillar = EmptyMap
    /\ CallsIdle
    /\ ResolveIdle
    /\ pKind \in {"db", "role"}
    /\ pIn \in SeqsUpTo(LinePool(pKind), MaxLines)
    /\ pName \in ParseNames
    /\ pRes = NoResult
    /\ pDone = FALSE
    /\ JailIdle

ApplyDbParser ==
    /\ ~pDone /\ pKind = "db"
    /\ pRes' = [list |-> db_list(OutputText(pIn)),
                exists |-> db_exists(pName, OutputText(pIn))]
    /\ pDone' = TRUE
    /\ UNCHANGED <<pKind, pIn, pName, serverVars, configVars, jailVars, callVars, resolveVars>>

ApplyRoleParser ==
    /\ ~pDone /\ pKind = "role"
    /\ pRes' = [list |-> user_list(OutputText(pIn)),
                exists |-> user_exists(pName, OutputText(pIn))]
    /\ pDone' = TRUE
    /\ UNCHANGED <<pKind, pIn, pName, serverVars, configVars, jailVars, callVars, resolveVars>>

NextParse == ApplyDbParser \/ ApplyRoleParser

SpecParse == InitParse /\ [][NextParse]_vars

\* The listing's qualifying lines, read off its cells.
Qualifying(lines, n) == SelectSeq(lines, LAMBDA l : Len(l) = n)

\* Some record of the listing has `field` equal to `name`: a qualifying line
\* after the first, its first cell not blank, holds `name` in the column the
\* first qualifying line names `field` (the last column is not a field).
HasRecord(lines, n, field, name) ==
    LET q == Qualifying(lines, n)
    IN  \E i \in 2..Len(q) :
            /\ q[i][1][2] # <<>>
            /\ \E k \in 1..(n - 1) : q[1][k][2] = field /\ q[i][k][2] = name

\* C9: a listing output without any line of the expected segment count makes
\* db_list / user_list return an empty sequence without raising, and
\* db_exists / user_exists return False.
C9_EmptyListingIsNotAnError ==
    (pDone /\ Qualifying(pIn, Columns(pKind)) = <<>>)
        => /\ pRes.list = Returned(<<>>)
           /\ pRes.exists = Returned(FALSE)

\* C10: db_exists / user_exists return True exactly when some record of the
\* listing has its "Name" / "rolname" field equal to the name, compared
\* case-sensitively; when they return False no record has.
C10_ExistsIffRecordNamed ==
    pDone =>
        /\ (pRes.exists = Returned(TRUE))
               <=> HasRecord(pIn, Columns(pKind), IdField(pKind), pName)
        /\ (pRes.exists = Returned(FALSE))
               => ~HasRecord(pIn, Columns(pKind), IdField(pKind), pName)

C10_Witness ==
    /\ pDone
    /\ pRes.exists = Returned(TRUE)
    /\ pName = NameUpperA
    /\ \E i \in 1..Len(pIn) : pIn[i] = RowLine(Columns(pKind), <<1, NameA, 1>>)

\* The records of a listing, read off its cells: the first line of n cells
\* names the fields; every later line of n cells whose first cell is not
\* blank gives one record, the fields but the last paired in order with the
\* line's cell contents.
ExpectedRecords(lines, n) ==
    LET q == Qualifying(lines, n)
        rows == SelectSeq(Tail(q), LAMBDA l : l[1][2] # <<>>)
    IN  [i \in 1..Len(rows) |-> [k \in 1..(n - 1) |-> <<q[1][k][2], rows[i][k][2]>>]]

\* C15: db_list / user_list take for table rows exactly the lines that split
\* on "|" into 6 / 13 segments; the first such line gives the field names,
\* trimmed and without the last; each later such line gives exactly one
\* record pairing those names in order with its trimmed values, unless its
\* first trimmed segment is empty, when it gives none.
C15_RecordsFollowTheTable ==
    (pDone /\ Qualifying(pIn, Columns(pKind)) # <<>>)
        => pRes.list = Returned(ExpectedRecords(pIn, Columns(pKind)))

\* A role listing with a line of one segment too many between the header
\* and a row.
C15_Witness ==
    /\ pDone /\ pKind = "role"
    /\ pIn = <<HeaderLine(RoleColumns, RolnameField),
               RowLine(RoleColumns + 1, Padded(NameA)),
               RowLine(RoleColumns, <<2, NameUpperA, 0>>)>>
    /\ Len(pRes.list.val) = 1
    /\ Len(pRes.list.val[1]) = RoleColumns - 1
    /\ pRes.list.val[1][1] = <<RolnameField, NameUpperA>>

(***************************************************************************)
(* Properties of the state functions (specification Spec)                  *)
(***************************************************************************)
\* Every call the state holds: the current one of each caller and the one
\* that finished before.
HeldCalls == {calls[p] : p \in Procs} \cup {prev}

Done(c) == c.pc = "done"
Live(c) == ~c.test
\* What the call's first existence check, the state function's own, returned.
Observed(c) == c.cmds[1].res
Mutations(c) == {i \in 1..Len(c.cmds) : c.cmds[i].op \in MutatingOps}
LastCmd(c) == c.cmds[Len(c.cmds)]

\* C1: postgres_database.present, live, on a database its first check
\* reports absent: it runs createdb once and then lists the databases again;
\* a database listed then gives changes {name: Present} and result True, a
\* database not listed then gives no changes, result False and the comment
\* that creation failed.
C1_DbPresentCreatesAndVerifies ==
    \A c \in HeldCalls :
        (c.fn = "postgres_database.present" /\ Live(c) /\ Done(c)
         /\ Observed(c) = "False")
        => /\ Cardinality(Mutations(c)) = 1
           /\ \A i \in Mutations(c) :
                  /\ c.cmds[i].op = "createdb" /\ c.cmds[i].name = c.name
                  /\ i + 1 = Len(c.cmds)
           /\ LastCmd(c).op = "psql -l"
           /\ LastCmd(c).res = "True"
                  => /\ c.ret.changes = {<<c.name, "Present">>}
                     /\ c.ret.result = "True"
           /\ LastCmd(c).res = "False"
                  => /\ c.ret.changes = {}
                     /\ c.ret.result = "False"
                     /\ c.ret.comment = Comment("Failed to create database {0}", c.name)

\* A creation that failed, after one that succeeded on another run.
C1_Witness ==
    /\ calls["c1"].fn = "postgres_database.present" /\ Done(calls["c1"])
    /\ Live(calls["c1"]) /\ Observed(calls["c1"]) = "False"
    /\ LastCmd(calls["c1"]).res = "True" /\ calls["c1"].ret.result = "True"
    /\ prev.fn = "postgres_database.present" /\ Done(prev)
    /\ Live(prev) /\ Observed(prev) = "False"
    /\ LastCmd(prev).res = "False" /\ prev.ret.result = "False"

\* C2: postgres_user.present, live, on a role its first check reports absent:
\* it runs CREATE USER and lists the roles again before it reports; changes
\* and result True only with the role present after the command, result
\* False and no changes whenever the role is still absent after it.
C2_UserPresentVerifies ==
    \A p \in Procs :
        LET c == calls[p]
        IN  (c.fn = "postgres_user.present" /\ Live(c) /\ Done(c)
             /\ Observed(c) = "False")
            => /\ (c.ret.result = "True" /\ c.ret.changes # {}) => c.name \in roles
               /\ c.name \notin roles => (c.ret.result = "False" /\ c.ret.changes = {})

\* C3: postgres_database.absent and postgres_user.absent, live, on a resource
\* their first check reports present: a resource gone after the drop command
\* gives changes and result True; a resource still there gives no changes and
\* result False, never result True.
C3_AbsentReportsFailedRemoval ==
    \A p \in Procs :
        LET c == calls[p]
        IN  (c.fn \in {"postgres_database.absent", "postgres_user.absent"}
             /\ Live(c) /\ Done(c) /\ Observed(c) = "True")
            => /\ c.name \notin Stored(KindOf(c.fn))
                   => (c.ret.changes # {} /\ c.ret.result = "True")
               /\ c.name \in Stored(KindOf(c.fn))
                   => (c.ret.changes = {} /\ c.ret.result = "False")

\* Every mutating command of the call took effect on the server.
Faithful(c) == \A i \in Mutations(c) : c.cmds[i].res = "done"

\* C4: present(X) called twice in a row, live, X absent at first and every
\* command taking effect: the first call records changes; the second records
\* none, has result True and runs no mutating command.
C4_PresentIsIdempotent ==
    LET first == prev
        second == calls["c1"]
    IN  (IsPresentFn(first.fn) /\ second.fn = first.fn /\ second.name = first.name
         /\ Live(first) /\ Live(second) /\ Done(first) /\ Done(second)
         /\ Observed(first) = "False" /\ Faithful(first) /\ Faithful(second))
        => /\ first.ret.changes # {}
           /\ second.ret.changes = {}
           /\ second.ret.result = "True"
           /\ Mutations(second) = {}

C4_Witness ==
    /\ prev.fn = "postgres_user.present" /\ calls["c1"].fn = "postgres_user.present"
    /\ Live(prev) /\ Live(calls["c1"]) /\ Done(prev) /\ Done(calls["c1"])
    /\ Observed(prev) = "False" /\ Faithful(prev)
    /\ prev.ret.changes = {<<NameA, "Present">>}
    /\ calls["c1"].ret.changes = {}

\* C5: with the test option set no call runs a create, drop, alter or
\* terminate command, and a step of such a call leaves the server's
\* databases and roles as they were.
C5_DryRunNeverMutates ==
    /\ [](\A c \in HeldCalls : c.test => Mutations(c) = {})
    /\ [][(\A p \in Procs : Running(calls[p]) => calls[p].test)
              => (dbs' = dbs /\ roles' = roles)]_vars

\* Dry runs that found something to do, for a database and for a role.
C5_Witness ==
    /\ calls["c1"].test /\ Done(calls["c1"])
    /\ calls["c1"].fn = "postgres_user.absent" /\ Observed(calls["c1"]) = "True"
    /\ prev.test /\ Done(prev)
    /\ prev.fn = "postgres_database.present" /\ Observed(prev) = "False"

\* The observed state differs from the one the function is to bring about.
Differs(c) ==
    \/ IsPresentFn(c.fn) /\ Observed(c) = "False"
    \/ c.fn \in StateFns /\ ~IsPresentFn(c.fn) /\ Observed(c) = "True"
Agrees(c) ==
    \/ IsPresentFn(c.fn) /\ Observed(c) = "True"
    \/ c.fn \in StateFns /\ ~IsPresentFn(c.fn) /\ Observed(c) = "False"

PendingComment(c) ==
    CASE c.fn = "postgres_database.present" -> "Database {0} is set to be created"
      [] c.fn = "postgres_database.absent" -> "Database {0} is set to be removed"
      [] c.fn = "postgres_user.present" -> "User {0} is set to be created"
      [] c.fn = "postgres_user.absent" -> "User {0} is set to be removed"

\* C6: a dry run that observes a state other than the desired one returns
\* result None, no changes and the comment that the resource is set to be
\* created or removed.
C6_DryRunReportsPending ==
    \A c \in HeldCalls :
        (c.test /\ Done(c) /\ Differs(c))
        => /\ c.ret.result = "None"
           /\ c.ret.changes = {}
           /\ c.ret.comment = Comment(PendingComment(c), c.name)

C6_Witness ==
    /\ calls["c1"].test /\ Done(calls["c1"]) /\ Differs(calls["c1"])
    /\ calls["c1"].fn = "postgres_database.absent"
    /\ prev.test /\ Done(prev) /\ Differs(prev)
    /\ prev.fn = "postgres_user.present"

\* C7: a call that observes the desired state already runs no mutating
\* command and returns no changes and result True, live or not; absent says
\* that the resource is not present and so cannot be removed.
C7_NothingToDo ==
    \A c \in HeldCalls :
        (Done(c) /\ Agrees(c))
        => /\ Mutations(c) = {}
           /\ c.ret.changes = {}
           /\ c.ret.result = "True"
           /\ ~IsPresentFn(c.fn)
                  => c.ret.comment =
                         Comment(IF IsDbFn(c.fn)
                                 THEN "Database {0} is not present, so it cannot be removed"
                                 ELSE "User {0} is not present, so it cannot be removed",
                                 c.name)

C7_Witness ==
    /\ Done(calls["c1"]) /\ Agrees(calls["c1"]) /\ Live(calls["c1"])
    /\ calls["c1"].fn = "postgres_user.absent"
    /\ Done(prev) /\ Agrees(prev) /\ prev.test
    /\ prev.fn = "postgres_database.present"

(***************************************************************************)
(* Property of _connection_defaults (specification SpecResolve)            *)
(***************************************************************************)
FixedDefault(f) ==
    CASE f = "pguser" -> "postgres" [] f = "pgpassword" -> None
      [] f = "pghost" -> "127.0.0.1" [] f = "pgport" -> "5432"

\* The first non-empty value among the argument, the __opts__ entry and the
\* __pillar__ entry of field f, else the field's fixed default.
FirstNonEmpty(f) ==
    LET sources == <<cargs[f],
                     IF ConfigKey(f) \in DOMAIN opts THEN opts[ConfigKey(f)] ELSE None,
                     IF ConfigKey(f) \in DOMAIN pillar THEN pillar[ConfigKey(f)] ELSE None>>
        given == {i \in 1..3 : sources[i] \notin {None, ""}}
    IN  IF given = {} THEN FixedDefault(f)
        ELSE sources[CHOOSE i \in given : \A j \in given : i <= j]

\* C8: _connection_defaults gives each of the four fields, independently of
\* the others, the first non-empty value among argument, __opts__ and
\* __pillar__, and else "postgres" / "127.0.0.1" / "5432" or, for the
\* password, None; an empty argument counts as one not passed.
C8_ResolvesByPrecedence ==
    rDone => \A f \in Fields : rOut[f] = FirstNonEmpty(f)

\* An empty host argument with both maps set, a port only the pillar sets,
\* a user set nowhere and a password passed as an argument.
C8_Witness ==
    /\ rDone
    /\ cargs.pghost = "" /\ rOut.pghost = "o.host"
    /\ "postgres.pghost" \in DOMAIN pillar /\ pillar["postgres.pghost"] = "p.host"
    /\ cargs.pgport = None /\ "postgres.pgport" \notin DOMAIN opts
    /\ rOut.pgport = "p.port"
    /\ rOut.pguser = "postgres"
    /\ "postgres.pgpassword" \in DOMAIN opts /\ rOut.pgpassword = "x.pw"

(***************************************************************************)
(* Properties of the module functions (specification SpecModule)           *)
(***************************************************************************)
IsListing(cmd) == cmd.op \in {ListingOp("db"), ListingOp("role")}

\* C11: a listing command that fails (psql cannot connect, psql is not
\* there, nothing is printed) makes db_exists / user_exists raise and never
\* return False or True; the call that made the check ends with that
\* exception there and then, so present runs no create command and absent
\* reports nothing on the strength of a failed check.
C11_FailedProbePropagates ==
    \A c \in HeldCalls : \A i \in 1..Len(c.cmds) :
        (IsListing(c.cmds[i]) /\ c.cmds[i].failed)
        => /\ c.cmds[i].res \notin {"True", "False"}
           /\ i = Len(c.cmds)
           /\ c.pc = "raised" /\ c.exc = c.cmds[i].res
           /\ c.fn \in StateFns => c.ret.comment[1] \in {"", "Database {0} is already present",
                                                        "User {0} is already present"}

\* absent whose own check failed: no command after it, nothing reported.
C11_Witness ==
    /\ calls["c1"].fn = "postgres_database.absent" /\ Live(calls["c1"])
    /\ calls["c1"].pc = "raised"
    /\ Len(calls["c1"].cmds) = 1 /\ calls["c1"].cmds[1].failed
    /\ calls["c1"].name \notin dbs

OpsOf(c) == [i \in 1..Len(c.cmds) |-> c.cmds[i].op]

\* C12: db_create called with a template that its existence check reports
\* absent runs no createdb (no mutating command at all), returns False and
\* logs the line that names the template.
C12_MissingTemplateStopsCreate ==
    \A c \in HeldCalls :
        (c.fn = "postgres.db_create" /\ c.template # <<>>
         /\ Len(c.cmds) >= 2 /\ c.cmds[2].res = "False")
        => /\ OpsOf(c) = <<"psql -l", "psql -l">>
           /\ Done(c) /\ c.val = "False"
           /\ c.log = <<Comment("template '{0}' does not exist.", c.template)>>

C12_Witness ==
    /\ calls["c1"].fn = "postgres.db_create" /\ calls["c1"].template = NameT
    /\ Done(calls["c1"]) /\ calls["c1"].val = "False"
    /\ Len(calls["c1"].cmds) = 2 /\ calls["c1"].cmds[1].res = "False"
    /\ calls["c1"].cmds[2].res = "False"

\* C13: db_remove with force, on a database its check reports present, runs
\* the query that terminates the sessions and then dropdb, whether the
\* query succeeded or not; no call without force runs that query.
C13_TerminateThenDrop ==
    \A c \in HeldCalls :
        /\ (c.fn = "postgres.db_remove" /\ c.force /\ ~Running(c)
            /\ Len(c.cmds) >= 1 /\ c.cmds[1].res = "True")
           => /\ Len(c.cmds) >= 3
              /\ SubSeq(OpsOf(c), 1, 3) = <<"psql -l", "psql terminate", "dropdb">>
              /\ c.cmds[2].name = c.name /\ c.cmds[3].name = c.name
              /\ \A i \in 4..Len(c.cmds) : c.cmds[i].op \notin {"psql terminate", "dropdb"}
        /\ \A i \in 1..Len(c.cmds) :
               /\ (c.force /\ c.cmds[i].op = "dropdb")
                      => (i > 1 /\ c.cmds[i - 1].op = "psql terminate")
               /\ ~c.force => c.cmds[i].op # "psql terminate"

\* A forced removal whose terminate query failed and whose dropdb ran.
C13_Witness ==
    /\ calls["c1"].fn = "postgres.db_remove" /\ calls["c1"].force
    /\ Done(calls["c1"]) /\ calls["c1"].val = "True"
    /\ calls["c1"].cmds[2].op = "psql terminate" /\ calls["c1"].cmds[2].res = "failed"
    /\ calls["c1"].cmds[3].op = "dropdb" /\ calls["c1"].cmds[3].res = "done"

\* C14: every command of a call, listings included, carries PGPASSWORD only
\* when the call's connection secret resolved non-empty, and then with that
\* secret as its value; with no secret passed or configured no command
\* carries PGPASSWORD.
C14_SecretOnlyWhenResolved ==
    \A c \in HeldCalls : \A i \in 1..Len(c.cmds) :
        /\ c.cmds[i].env = CommandEnv(Resolved.pgpassword)
        /\ ~Truthy(Resolved.pgpassword) => c.cmds[i].env = EmptyMap

\* C16: every command of a call runs as the principal and against the host
\* and port the call's connection parameters resolved to; the listings of
\* user_remove and user_update go to the host and port of their DROP and
\* ALTER command.
C16_OneConnectionPerCall ==
    \A c \in HeldCalls : \A i \in 1..Len(c.cmds) :
        /\ c.cmds[i].pguser = Resolved.pguser
        /\ c.cmds[i].pghost = Resolved.pghost
        /\ c.cmds[i].pgport = Resolved.pgport

\* The most commands one call runs: two listings before the mutating
\* command (or one and the terminate query), the command, one listing after.
MaxCommands == 4

\* C18: a call runs each mutating command at most once (a forced removal:
\* the terminate query once, then dropdb once; any other call: one mutating
\* command at most); the listing that follows the mutating command is the
\* call's last command whatever it shows, so nothing is retried or rolled
\* back; and a call ends after at most MaxCommands commands.
C18_NoRetries ==
    \A c \in HeldCalls :
        /\ \A op \in MutatingOps :
               Cardinality({i \in Mutations(c) : c.cmds[i].op = op}) <= 1
        /\ Cardinality(Mutations(c)) <= (IF c.force THEN 2 ELSE 1)
        /\ \A i \in Mutations(c) : \A j \in (i + 1)..Len(c.cmds) :
               IsListing(c.cmds[j]) => (j = Len(c.cmds) /\ ~Running(c))
        /\ Len(c.cmds) <= MaxCommands

\* A forced removal that did not take effect: four commands, then False.
C18_Witness ==
    /\ calls["c1"].fn = "postgres.db_remove" /\ calls["c1"].force
    /\ Done(calls["c1"]) /\ calls["c1"].val = "False"
    /\ OpsOf(calls["c1"]) = <<"psql -l", "psql terminate", "dropdb", "psql -l">>
    /\ calls["c1"].cmds[3].res = "failed" /\ calls["c1"].cmds[4].res = "True"

(***************************************************************************)
(* Properties of concurrent calls (specification SpecConc)                 *)
(***************************************************************************)
Other(p) == CHOOSE q \in Procs : q # p
HasRun(c, op) == \E i \in 1..Len(c.cmds) : c.cmds[i].op = op

\* C17: nothing closes the gap between a call's existence checks and its
\* mutating command: a call that has passed its checks can run createdb
\* (dropdb) whatever the other call has done meanwhile, so two calls for the
\* same database can both pass their checks and both run the command.
C17_CheckThenActGap ==
    \A p \in Procs :
        /\ calls[p].pc = "db_create:createdb" => ENABLED DbCreate_createdb(p)
        /\ calls[p].pc = "db_remove:dropdb" => ENABLED DbRemove_dropdb(p)

\* Two present calls for the same absent database: both saw it absent in
\* present and in db_create, and both have run createdb.
C17_Witness ==
    /\ \A p \in Procs :
           /\ calls[p].fn = "postgres_database.present" /\ calls[p].name = NameA
           /\ Len(calls[p].cmds) >= 3
           /\ calls[p].cmds[1].res = "False" /\ calls[p].cmds[2].res = "False"
           /\ calls[p].cmds[3].op = "createdb"
    /\ calls["c1"].cmds[3].res = "done"

BothPresent ==
    \A p \in Procs :
        /\ calls[p].fn = "postgres_database.present"
        /\ calls[p].name = calls[Other(p)].name
        /\ Faithful(calls[p])

\* C19 as stated: two concurrent live present calls for the same database,
\* every command taking effect: no call returns result False.
C19_NoFailureUnderRace ==
    BothPresent => \A p \in Procs : Done(calls[p]) => calls[p].ret.result # "False"

\* C19: two concurrent live present calls for the same database, every
\* command taking effect: the database is there whenever a call has
\* returned; a call returns result False exactly by being overtaken: it saw
\* the database absent in present, then db_create saw it present because the
\* other call's createdb had run; such a call runs no createdb and says
\* that creation failed; the two calls never both return result False.
C19_FailureOnlyWhenOvertaken ==
    BothPresent =>
        \A p \in Procs :
            LET c == calls[p]
                o == calls[Other(p)]
            IN  Done(c) =>
                    /\ c.name \in dbs
                    /\ c.ret.result = "False"
                           => /\ OpsOf(c) = <<"psql -l", "psql -l">>
                              /\ c.cmds[1].res = "False" /\ c.cmds[2].res = "True"
                              /\ c.log = <<Comment("DB '{0}' already exists", c.name)>>
                              /\ c.ret.comment = Comment("Failed to create database {0}", c.name)
                              /\ c.ret.changes = {}
                              /\ HasRun(o, "createdb")
                              /\ ~(Done(o) /\ o.ret.result = "False")

\* One call created the database, the other was overtaken and reports
\* failure with the database there.
C19_Witness ==
    /\ BothPresent
    /\ Done(calls["c1"]) /\ calls["c1"].ret.result = "False"
    /\ Done(calls["c2"]) /\ calls["c2"].ret.result = "True"
    /\ calls["c2"].ret.changes = {<<NameA, "Present">>}
    /\ NameA \in dbs

(***************************************************************************)
(* Properties of poudriere.create_jail (specification SpecJail)            *)
(***************************************************************************)
Creations(c) == {i \in 1..Len(c.cmds) : c.cmds[i].op = "poudriere jails -c"}
FileWrites(c) == {i \in 1..Len(c.cmds) : c.cmds[i].op \in {"mkdir", "echo"}}

\* C20: a finished create_jail call whose first is_jail returned True ran no
\* creation command, wrote no file and returned "<name> already exists";
\* any other finished call ran the creation command exactly once and
\* returned "Created jail <name>" if the listing after the command had the
\* jail, and "Issue creating jail <name>" if it had not.
C20_CreatesOnlyWhenAbsent ==
    (jcall.fn = "create_jail" /\ ~Running(jcall))
    => IF jcall.cmds[1].res = "True"
       THEN /\ Creations(jcall) = {} /\ FileWrites(jcall) = {}
            /\ Done(jcall) /\ jcall.val = Comment("{0} already exists", jcall.name)
       ELSE /\ Cardinality(Creations(jcall)) = 1
            /\ Done(jcall)
            /\ jcall.val = IF LastCmd(jcall).res = "True"
                           THEN Comment("Created jail {0}", jcall.name)
                           ELSE Comment("Issue creating jail {0}", jcall.name)

\* The same for the calls whose is_jail calls all returned: the only way a
\* call ends otherwise is the IndexError of is_jail.
CreateJailWhenListingsParse ==
    /\ (jcall.fn = "create_jail" /\ Done(jcall))
       => IF jcall.cmds[1].res = "True"
          THEN /\ Creations(jcall) = {} /\ FileWrites(jcall) = {}
               /\ jcall.val = Comment("{0} already exists", jcall.name)
          ELSE /\ Cardinality(Creations(jcall)) = 1
               /\ jcall.cmds[1].res = "False"
               /\ jcall.val = IF LastCmd(jcall).res = "True"
                              THEN Comment("Created jail {0}", jcall.name)
                              ELSE Comment("Issue creating jail {0}", jcall.name)
    /\ jcall.pc = "raised"
       => /\ jcall.exc = "IndexError" /\ LastCmd(jcall).res = "IndexError"
          /\ LastCmd(jcall).op = "poudriere jails -l"

(***************************************************************************)
(* Properties of poudriere.delete_jail (specification SpecJail)            *)
(***************************************************************************)
Removals(c) == {i \in 1..Len(c.cmds) : c.cmds[i].op = "rm"}
Deletions(c) == {i \in 1..Len(c.cmds) : c.cmds[i].op = "poudriere jail -d"}

\* C21: a finished delete_jail call returned "Deleted jail <name>" only with
\* the jail listed before the delete command and not listed after it; a
\* call whose first is_jail did not find the jail ran no command, removed
\* no file and returned that the jail has not been created; a call that
\* found the jail still listed after the delete command returned the issue
\* message and ran no rm.
C21_DeleteReportsWhatItFound ==
    (jcall.fn = "delete_jail" /\ ~Running(jcall))
    => /\ (Done(jcall) /\ jcall.val = Comment("Deleted jail {0}", jcall.name))
          => /\ Len(jcall.cmds) >= 3
             /\ jcall.cmds[1].res = "True"
             /\ jcall.cmds[2].op = "poudriere jail -d"
             /\ jcall.cmds[3].res = "False"
       /\ jcall.cmds[1].res # "True"
          => /\ Len(jcall.cmds) = 1
             /\ Done(jcall)
             /\ jcall.val = Comment("Looks like jail {0} has not been created", jcall.name)
       /\ (Len(jcall.cmds) >= 3 /\ jcall.cmds[3].res = "True")
          => /\ Done(jcall)
             /\ jcall.val = Comment("Looks like there was an issue deleteing jail {0}",
                                    jcall.name)
             /\ Removals(jcall) = {}

\* The same for the calls whose is_jail calls all returned: the only way a
\* call ends otherwise is the IndexError of is_jail.
DeleteJailWhenListingsParse ==
    /\ (jcall.fn = "delete_jail" /\ Done(jcall))
       => /\ jcall.val = Comment("Deleted jail {0}", jcall.name)
             => /\ Len(jcall.cmds) >= 3
                /\ jcall.cmds[1].res = "True"
                /\ Cardinality(Deletions(jcall)) = 1
                /\ jcall.cmds[3].res = "False"
          /\ jcall.cmds[1].res # "True"
             => /\ Len(jcall.cmds) = 1 /\ jcall.cmds[1].res = "False"
                /\ jcall.val = Comment("Looks like jail {0} has not been created",
                                       jcall.name)
          /\ (Len(jcall.cmds) >= 3 /\ jcall.cmds[3].res = "True")
             => /\ jcall.val = Comment("Looks like there was an issue deleteing jail {0}",
                                       jcall.name)
                /\ Removals(jcall) = {}
    /\ (jcall.fn = "delete_jail" /\ jcall.pc = "raised")
       => /\ jcall.exc = "IndexError" /\ LastCmd(jcall).res = "IndexError"
          /\ LastCmd(jcall).op = "poudriere jails -l"

(***************************************************************************)
(* Property of create_jail and delete_jail called one after the other on   *)
(* a fresh host (specification SpecJailFresh)                              *)
(***************************************************************************)
\* C22: whenever no call is under way and the last one, if any, returned,
\* every make.conf file belongs to a jail that exists; a create_jail call
\* that returned "Issue creating jail <name>" has left no make.conf file
\* for the name.
C22_ConfOnlyForListedJails ==
    jcall.pc \in {"idle", "done"}
    => /\ confFiles \subseteq jails
       /\ (jcall.fn = "create_jail" /\ Done(jcall)
           /\ jcall.val = Comment("Issue creating jail {0}", jcall.name))
          => jcall.name \notin confFiles

(***************************************************************************)
(* Specification of the is_jail runs: is_jail applied to listing outputs   *)
(* of up to MaxLines lines.                                                *)
(***************************************************************************)
\* A printed line: blanks, then fields two blanks apart.
JailRow(lead, fields) == [lead |-> lead, fields |-> fields]
JailRowText(row) ==
    Spaces(row.lead)
    \o JoinWith([i \in 1..Len(row.fields) |->
                     IF i < Len(row.fields) THEN row.fields[i] \o <<" ">>
                     ELSE row.fields[i]], " ")
JailOutputText(rows) == JoinWith([i \in 1..Len(rows) |-> JailRowText(rows[i])], "\n")

\* Header, the lines of two jails, a line that starts with blanks, an empty
\* line and a line of blanks.
JailLinePool ==
    { JailRow(0, <<<<"J", "A", "I", "L">>, <<"V", "E", "R">>>>),
      JailRow(0, <<JailOne, <<"9", ".", "0">>>>),
      JailRow(0, <<JailTen, <<"9", ".", "0">>>>),
      JailRow(2, <<JailOne>>),
      JailRow(0, <<>>),
      JailRow(2, <<>>) }

InitIsJail ==
    /\ ServerIdle
    /\ cargs = ConnArgs(None, None, None, None) /\ opts = EmptyMap /\ pillar = EmptyMap
    /\ CallsIdle
    /\ ResolveIdle
    /\ JailIdle
    /\ pKind = "jail"
    /\ pIn \in SeqsUpTo(JailLinePool, MaxLines)
    /\ pName \in JailNames
    /\ pRes = NoResult
    /\ pDone = FALSE

ApplyIsJail ==
    /\ ~pDone /\ pKind = "jail"
    /\ pRes' = [list |-> Returned(list_jails(JailOutputText(pIn))),
                exists |-> is_jail(pName, JailOutputText(pIn))]
    /\ pDone' = TRUE
    /\ UNCHANGED <<pKind, pIn, pName, serverVars, configVars, jailVars, callVars, resolveVars>>

NextIsJail == ApplyIsJail

SpecIsJail == InitIsJail /\ [][NextIsJail]_vars

\* The lines whose first field is `name`, and the lines without any field.
Naming(rows, name) ==
    {i \in 1..Len(rows) : rows[i].fields # <<>> /\ rows[i].fields[1] = name}
Fieldless(rows) ==
    IF rows = <<>> THEN {1} ELSE {i \in 1..Len(rows) : rows[i].fields = <<>>}

\* C23: is_jail returns True exactly when some line of the listing has the
\* name as its first field, and returns False otherwise, never raising,
\* whatever the listing: empty, or with empty lines and lines of blanks.
C23_IsJailNeverRaises ==
    pDone => pRes.exists = Returned(Naming(pIn, pName) # {})

\* What is_jail does: True when a line names the jail before any line
\* without fields, IndexError when a line without fields comes first (the
\* one line of an empty output is such a line), False when there is neither.
IsJailStopsAtFirstMatchOrGap ==
    pDone =>
        LET stops == Naming(pIn, pName) \cup Fieldless(pIn)
            first == CHOOSE i \in stops : \A j \in stops : i <= j
        IN  IF stops = {} THEN pRes.exists = Returned(FALSE)
            ELSE IF first \in Naming(pIn, pName) THEN pRes.exists = Returned(TRUE)
            ELSE pRes.exists.exc = "IndexError"

=============================================================================
